---- MODULE Spec2Model ----
(***************************************************************************)
(* S3CompatibleObjectStorage (quickwit-storage, object_storage/            *)
(* s3_compatible_storage.rs): bulk_delete and the multipart put, as state  *)
(* machines whose steps are the await points of the async functions.       *)
(***************************************************************************)
EXTENDS Integers, Sequences, FiniteSets, TLC

VARIABLES
    \* ---- the storage object ----
    prefix,               \* S3CompatibleObjectStorage.prefix, a path
    \* ---- bulk_delete ----
    paths,                \* the argument `paths`
    d_pc,                 \* position in bulk_delete: idle | loop | call | done
    chunk_idx,            \* index (1-based) of the chunk the for loop is at
    d_num_attempts,       \* retry(): failed attempts of the call in flight (0: none)
    error,                \* `error`: Option of a whole-batch error
    successes,            \* `successes`: Vec of paths
    failures,             \* `failures`: HashMap path -> DeleteFailure
    unattempted,          \* `unattempted`: Vec of paths
    delete_objects_res,   \* Option of the response folded by the last iteration
    d_result,             \* Option of the value bulk_delete returned
    d_calls,              \* history: chunk index -> retried DeleteObjects calls issued
    d_errs,               \* history: whole-batch errors in the order they occurred
    d_returned,           \* history: chunks whose retried call has returned
    d_sent,               \* history: the objects of each DeleteObjects call issued
    \* ---- put ----
    total_len,            \* payload.len()
    part_num_bytes,       \* multipart_policy.part_num_bytes(total_len)
    max_concurrent_upload,\* multipart_policy.max_concurrent_upload()
    p_pc,                 \* position in put: idle | start | single | create | digest |
                          \*   upload | complete | abort | done | panicked
    p_num_attempts,       \* retry(): failed attempts of the sequential call in flight
    upload_id,            \* Option of the MultipartUploadId
    parts,                \* Vec<Part> built by create_multipart_requests
    uploads,              \* per part: the state of its retried upload_part future
    admitted,             \* parts the buffered stream has started
    completed_parts_res,  \* Option of `completed_parts_res`
    abort_res,            \* Option of `abort_multipart_upload_res`
    p_result,             \* Option of the value put returned
    p_calls,              \* history: operation -> times it was issued
    \* ---- parse_s3_uri, key / relative_path, chunk_range, check_connectivity,
    \* ---- get_slice
    f_op,                 \* the operation called
    f_arg,                \* its argument
    f_pc,                 \* position in it: idle | start | keyed | call | done |
                          \*   panicked
    f_key,                \* Option of the String built on the way: the key of
                          \*   key(), the range_str of get_slice
    f_ret,                \* Option of the value the operation returned
    f_requests            \* history: requests sent (list_objects_v2, get_object)

d_vars == << paths, d_pc, chunk_idx, d_num_attempts, error, successes,
             failures, unattempted, delete_objects_res, d_result, d_calls, d_errs,
             d_returned, d_sent >>

p_vars == << total_len, part_num_bytes, max_concurrent_upload, p_pc, p_num_attempts,
             upload_id, parts, uploads, admitted, completed_parts_res, abort_res,
             p_result, p_calls >>

f_vars == << f_op, f_arg, f_pc, f_key, f_ret, f_requests >>

vars == << prefix, d_vars, p_vars, f_vars >>

\* ------------------------------------------------------------------ bounds

MaxPaths == 7
MaxLen == 3
MaxPartLen == 2
MaxConcurrent == 2
MaxPathLen == 3
MaxUriLen == 5
MaxChunkLen == 11
MaxChunkSize == 4
UsizeBits == 3

\* ------------------------------------------------------- program constants

MAX_NUM_KEYS == 3
max_attempts == 3

\* ------------------------------------------------------------------ options

None == << >>
Some(x) == << x >>
IsSome(o) == o # << >>
Unwrap(o) == o[1]

Min(a, b) == IF a < b THEN a ELSE b

\* ------------------------------------------------------------------ paths

\* A path (Path, PathBuf, or a key String) is the sequence of the tokens it is
\* written with: the separator "/" and, between separators, a name, "." or "..".
PathNames == << <<"foo">>, <<"bar">>, <<"baz">>, <<"dir", "/", "foobar">>,
                <<"foobaz">>, <<"barfoo">>, <<"barbaz">>, <<"dir", "/", "barbar">> >>

Prefixes == { <<"indexes">> }

IsAbsolute(p) == Len(p) > 0 /\ p[1] = "/"

RECURSIVE ComponentsFrom(_, _)
\* Path::components from token i on: a leading separator is the root
\* component, the other separators separate; "." is kept only as the first
\* token of the path, so that a/./b, a//b, a/b/ and a/b have the same components.
ComponentsFrom(p, i) ==
    IF i > Len(p) THEN << >>
    ELSE (IF p[i] = "/" THEN (IF i = 1 THEN << "/" >> ELSE << >>)
          ELSE IF p[i] = "." /\ i > 1 THEN << >>
          ELSE << p[i] >>)
         \o ComponentsFrom(p, i + 1)

Components(p) == ComponentsFrom(p, 1)

RECURSIVE PathOf(_)
\* Components::as_path: the path written with these components.
PathOf(components) ==
    IF Len(components) <= 1 THEN components
    ELSE IF components[1] = "/" THEN << "/" >> \o PathOf(Tail(components))
    ELSE << components[1], "/" >> \o PathOf(Tail(components))

\* PathBuf::join (push): an absolute argument replaces the receiver; a
\* separator is added unless the receiver is empty or ends with one.
Join(pre, p) ==
    IF IsAbsolute(p) THEN p
    ELSE IF pre = << >> \/ pre[Len(pre)] = "/" THEN pre \o p
    ELSE pre \o << "/" >> \o p

\* Path::strip_prefix: None when the components of `pre` are no prefix of the
\* components of `p`, else the path of the remaining components.
StripPrefix(p, pre) ==
    LET components == Components(p)
        base == Components(pre)
    IN IF Len(base) <= Len(components) /\ SubSeq(components, 1, Len(base)) = base
       THEN Some(PathOf(SubSeq(components, Len(base) + 1, Len(components))))
       ELSE None

\* self.key(relative_path): the joined path, written out as a String
Key(relative_path) == Join(prefix, relative_path)

\* self.relative_path(key): Path::new(key) stripped of the prefix; the
\* expect() panics on None
RelativePath(key) == StripPrefix(key, prefix)

\* ------------------------------------------------------------- retry engine

\* Mutant: the loop compares the attempts with the budget after sleeping.
RetryAgain_OneMore(num_attempts, retryable) ==
    retryable /\ num_attempts + 1 <= max_attempts

\* retry(): what the loop does after a failed attempt, `num_attempts` failed
\* attempts having been counted before it.
RetryAgain(num_attempts, retryable) ==
    retryable /\ num_attempts + 1 < max_attempts

\* Operations of put and how often each was issued (a retried call counts once).
Operations == { "put_object", "create_multipart_upload", "range_byte_stream",
                "complete_multipart_upload", "abort_multipart_upload" }
NoCalls == [op \in Operations |-> 0]

\* ------------------------------------------------------- remote DeleteObjects

\* What the remote reports for one object of a DeleteObjects request.
KeyOutcomes == { "Deleted", "NoSuchKey", "AccessDenied", "NoCode",
                 "Omitted", "DeletedNoKey", "ErrorNoKey" }

\* Whole-request failures: code -> is_retryable
BatchErrorCodes == { "MalformedXML", "InternalError" }
IsRetryable(code) == code = "InternalError"

RECURSIVE DeletedObjects(_, _, _)
\* DeleteObjectsOutput.deleted for the request `objects` and the outcomes `o`
DeletedObjects(objects, o, i) ==
    IF i > Len(objects) THEN << >>
    ELSE (CASE o[i] = "Deleted"      -> << [key |-> Some(objects[i])] >>
            [] o[i] = "DeletedNoKey" -> << [key |-> None] >>
            [] OTHER                 -> << >>)
         \o DeletedObjects(objects, o, i + 1)

RECURSIVE S3Errors(_, _, _)
\* DeleteObjectsOutput.errors for the request `objects` and the outcomes `o`
S3Errors(objects, o, i) ==
    IF i > Len(objects) THEN << >>
    ELSE (CASE o[i] = "NoSuchKey" ->
                 << [key |-> Some(objects[i]), code |-> Some("NoSuchKey"),
                     message |-> Some("The specified key does not exist")] >>
            [] o[i] = "AccessDenied" ->
                 << [key |-> Some(objects[i]), code |-> Some("AccessDenied"),
                     message |-> Some("Access Denied")] >>
            [] o[i] = "NoCode" ->
                 << [key |-> Some(objects[i]), code |-> None, message |-> None] >>
            [] o[i] = "ErrorNoKey" ->
                 << [key |-> None, code |-> Some("AccessDenied"),
                     message |-> Some("Access Denied")] >>
            [] OTHER -> << >>)
         \o S3Errors(objects, o, i + 1)

OptionOfList(l) == IF l = << >> THEN None ELSE Some(l)

DeleteObjectsOutput(objects, o) ==
    [ deleted |-> OptionOfList(DeletedObjects(objects, o, 1)),
      errors  |-> OptionOfList(S3Errors(objects, o, 1)) ]

\* ---------------------------------------------------------------- bulk_delete

\* paths.chunks(MAX_NUM_KEYS)
NumChunks == (Len(paths) + MAX_NUM_KEYS - 1) \div MAX_NUM_KEYS
\* Mutant: a chunk runs on to the first key of the next chunk.
Chunk_Overlapping(i) ==
    SubSeq(paths, (i - 1) * MAX_NUM_KEYS + 1, Min(i * MAX_NUM_KEYS + 1, Len(paths)))

Chunk(i) == SubSeq(paths, (i - 1) * MAX_NUM_KEYS + 1, Min(i * MAX_NUM_KEYS, Len(paths)))

RECURSIVE MapKey(_)
\* chunk.iter().map(|path| ObjectIdentifier::builder().key(self.key(path)).build())
MapKey(chunk) ==
    IF chunk = << >> THEN << >> ELSE << Key(Head(chunk)) >> \o MapKey(Tail(chunk))

\* Mutant: the loop does not look at `error` before sending a chunk.
SkipsChunk_NoFailFast == FALSE

\* if error.is_some() { ...; continue; }
SkipsChunk == IsSome(error)

RECURSIVE FoldDeleted(_, _)
\* for deleted_object in deleted_objects { ... }
FoldDeleted(succ, deleted_objects) ==
    IF deleted_objects = << >> THEN succ
    ELSE LET deleted_object == Head(deleted_objects)
         IN FoldDeleted(
                IF IsSome(deleted_object.key)
                THEN Append(succ, Unwrap(RelativePath(Unwrap(deleted_object.key))))
                ELSE succ,
                Tail(deleted_objects))

\* Mutant: NoSuchKey is not told apart from the other error codes.
IsSuccessCode_NotIdempotent(code) == FALSE

\* match s3_error.code { Some(code) if code == "NoSuchKey" => ..., _ => ... }
IsSuccessCode(code) == code = Some("NoSuchKey")

\* The body of `for s3_error in s3_errors` on the accumulators `acc`.
FoldS3Error(acc, s3_error) ==
    IF ~IsSome(s3_error.key) THEN acc
    ELSE LET path == Unwrap(RelativePath(Unwrap(s3_error.key)))
         IN IF IsSuccessCode(s3_error.code)
            THEN [acc EXCEPT !.successes = Append(@, path)]
            ELSE [acc EXCEPT !.failures =
                      (path :> [code |-> s3_error.code, message |-> s3_error.message]) @@ @]

RECURSIVE FoldErrors(_, _)
FoldErrors(acc, s3_errors) ==
    IF s3_errors = << >> THEN acc
    ELSE FoldErrors(FoldS3Error(acc, Head(s3_errors)), Tail(s3_errors))

\* The Ok arm of `match delete_objects_res`.
FoldOutput(acc, output) ==
    LET afterDeleted ==
            IF IsSome(output.deleted)
            THEN [acc EXCEPT !.successes = FoldDeleted(@, Unwrap(output.deleted))]
            ELSE acc
    IN IF IsSome(output.errors)
       THEN FoldErrors(afterDeleted, Unwrap(output.errors))
       ELSE afterDeleted

\* Mutant: the Err arm records the error and forgets the chunk's keys.
UnattemptedAfterError_Forgotten == unattempted

\* unattempted.extend(chunk.iter().map(|path| path.to_path_buf())) of the Err arm
UnattemptedAfterError == unattempted \o Chunk(chunk_idx)

\* Mutant: per-key failures alone do not make the call fail.
ReturnsOk_IgnoresFailures == ~IsSome(error)

\* if error.is_none() && failures.is_empty() { Ok(()) } else { Err(BulkDeleteError {..}) }
ReturnsOk == ~IsSome(error) /\ DOMAIN failures = {}

BulkDeleteResult ==
    IF ReturnsOk
    THEN [kind |-> "Ok"]
    ELSE [kind |-> "Err", error |-> error, successes |-> successes,
          failures |-> failures, unattempted |-> unattempted]

\* The for loop reaches a chunk after a whole-batch error: the chunk is skipped.
BulkDeleteSkip ==
    /\ d_pc = "loop"
    /\ chunk_idx <= NumChunks
    /\ SkipsChunk
    /\ unattempted' = unattempted \o Chunk(chunk_idx)
    /\ chunk_idx' = chunk_idx + 1
    /\ delete_objects_res' = None
    /\ UNCHANGED << prefix, paths, d_pc, d_num_attempts, error, successes, failures,
                    d_result, d_calls, d_errs, d_returned, d_sent >>
    /\ UNCHANGED << p_vars, f_vars >>

\* Mutant: the call of a chunk is spawned and the loop goes on to the next
\* chunk without awaiting it.
BulkDeleteSend_Spawned ==
    /\ d_pc = "loop"
    /\ chunk_idx <= NumChunks
    /\ ~SkipsChunk
    /\ d_calls' = [d_calls EXCEPT ![chunk_idx] = @ + 1]
    /\ d_sent' = Append(d_sent, MapKey(Chunk(chunk_idx)))
    /\ chunk_idx' = chunk_idx + 1
    /\ delete_objects_res' = None
    /\ UNCHANGED << prefix, paths, d_pc, d_num_attempts, error, successes, failures,
                    unattempted, d_result, d_errs, d_returned >>
    /\ UNCHANGED << p_vars, f_vars >>

\* The for loop reaches a chunk and issues its retried DeleteObjects call; the
\* first request is in flight.
BulkDeleteSend ==
    /\ d_pc = "loop"
    /\ chunk_idx <= NumChunks
    /\ ~SkipsChunk
    /\ d_pc' = "call"
    /\ d_num_attempts' = 0
    /\ d_calls' = [d_calls EXCEPT ![chunk_idx] = @ + 1]
    /\ d_sent' = Append(d_sent, MapKey(Chunk(chunk_idx)))
    /\ delete_objects_res' = None
    /\ UNCHANGED << prefix, paths, chunk_idx, error, successes, failures,
                    unattempted, d_result, d_errs, d_returned >>
    /\ UNCHANGED << p_vars, f_vars >>

\* The request in flight fails and retry() sends it again.
DeleteObjectsRetry ==
    /\ d_pc = "call"
    /\ \E code \in BatchErrorCodes :
          RetryAgain(d_num_attempts, IsRetryable(code))
    /\ d_num_attempts' = d_num_attempts + 1
    /\ UNCHANGED << prefix, paths, d_pc, chunk_idx, error, successes, failures,
                    unattempted, delete_objects_res, d_result, d_calls, d_errs,
                    d_returned, d_sent >>
    /\ UNCHANGED << p_vars, f_vars >>

\* The request in flight fails and retry() gives up: the Err arm.
DeleteObjectsErr ==
    /\ d_pc = "call"
    /\ \E code \in BatchErrorCodes :
          /\ ~RetryAgain(d_num_attempts, IsRetryable(code))
          /\ LET delete_objects_error ==
                     [code |-> code, chunk |-> chunk_idx, attempt |-> d_num_attempts + 1]
             IN /\ error' = Some(delete_objects_error)
                /\ d_errs' = Append(d_errs, delete_objects_error)
    /\ unattempted' = UnattemptedAfterError
    /\ d_returned' = d_returned \cup { chunk_idx }
    /\ chunk_idx' = chunk_idx + 1
    /\ d_pc' = "loop"
    /\ d_num_attempts' = 0
    /\ UNCHANGED << prefix, paths, successes, failures, delete_objects_res,
                    d_result, d_calls, d_sent >>
    /\ UNCHANGED << p_vars, f_vars >>

\* The request in flight succeeds: the Ok arm folds the response.
DeleteObjectsOk ==
    /\ d_pc = "call"
    /\ \E objects \in { d_sent[Len(d_sent)] } :
       \E o \in [1 .. Len(objects) -> KeyOutcomes] :
          LET output == DeleteObjectsOutput(objects, o)
              acc    == FoldOutput([successes |-> successes, failures |-> failures],
                                   output)
          IN /\ delete_objects_res' = Some(output)
             /\ successes' = acc.successes
             /\ failures' = acc.failures
    /\ d_returned' = d_returned \cup { chunk_idx }
    /\ chunk_idx' = chunk_idx + 1
    /\ d_pc' = "loop"
    /\ d_num_attempts' = 0
    /\ UNCHANGED << prefix, paths, error, unattempted, d_result, d_calls, d_errs,
                    d_sent >>
    /\ UNCHANGED << p_vars, f_vars >>

\* The for loop is over: bulk_delete returns.
BulkDeleteReturn ==
    /\ d_pc = "loop"
    /\ chunk_idx > NumChunks
    /\ d_result' = Some(BulkDeleteResult)
    /\ d_pc' = "done"
    /\ delete_objects_res' = None
    /\ UNCHANGED << prefix, paths, chunk_idx, d_num_attempts, error, successes,
                    failures, unattempted, d_calls, d_errs, d_returned, d_sent >>
    /\ UNCHANGED << p_vars, f_vars >>

\* No put is running.
PutIdle ==
    /\ total_len = 0
    /\ part_num_bytes = 1
    /\ max_concurrent_upload = 1
    /\ p_pc = "idle"
    /\ p_num_attempts = 0
    /\ upload_id = None
    /\ parts = << >>
    /\ uploads = << >>
    /\ admitted = 0
    /\ completed_parts_res = None
    /\ abort_res = None
    /\ p_result = None
    /\ p_calls = NoCalls

\* None of the other operations is running.
FacadeIdle ==
    /\ f_op = "none"
    /\ f_arg = << >>
    /\ f_pc = "idle"
    /\ f_key = None
    /\ f_ret = None
    /\ f_requests = 0

BulkDeleteInit ==
    /\ prefix \in Prefixes
    /\ \E n \in 0 .. MaxPaths : paths = SubSeq(PathNames, 1, n)
    /\ d_pc = "loop"
    /\ chunk_idx = 1
    /\ d_num_attempts = 0
    /\ error = None
    /\ successes = << >>
    /\ failures = << >>
    /\ unattempted = << >>
    /\ delete_objects_res = None
    /\ d_result = None
    /\ d_calls = [c \in 1 .. (MaxPaths + MAX_NUM_KEYS - 1) \div MAX_NUM_KEYS |-> 0]
    /\ d_errs = << >>
    /\ d_returned = {}
    /\ d_sent = << >>
    /\ PutIdle
    /\ FacadeIdle

BulkDeleteNext ==
    \/ BulkDeleteSkip
    \/ BulkDeleteSend
    \/ DeleteObjectsRetry
    \/ DeleteObjectsErr
    \/ DeleteObjectsOk
    \/ BulkDeleteReturn

BulkDeleteSpec == BulkDeleteInit /\ [][BulkDeleteNext]_vars

\* ------------------------------------------------------------------- put

\* quickwit_common::chunk_range(start..len, chunk_size)
RECURSIVE ChunkRangeFrom(_, _, _)
ChunkRangeFrom(block_start, len, chunk_size) ==
    IF block_start >= len THEN << >>
    ELSE << [start |-> block_start, end |-> Min(block_start + chunk_size, len)] >>
         \o ChunkRangeFrom(block_start + chunk_size, len, chunk_size)

\* Mutant: the payload is split from its second byte on.
MultipartRanges_FromOne == ChunkRangeFrom(1, total_len, part_num_bytes)

\* let multipart_ranges = chunk_range(0..len as usize, part_len as usize)
MultipartRanges == ChunkRangeFrom(0, total_len, part_num_bytes)

\* Mutant: the digest is computed over the whole payload.
Md5_WholePayload(range) == << "md5", 0, total_len >>

\* compute_md5 of the bytes of `range`: the digest stands for the bytes read.
Md5(range) == << "md5", range.start, range.end >>

\* What a failed attempt of a remote call is: retryable or not.
FailureKinds == { "transient", "permanent" }
\* upload_part also fails, as Retry::Permanent, when the payload cannot be read.
PartFailureKinds == FailureKinds \cup { "io" }

\* A StorageError: the operation it came from, the part (0: none), its kind and
\* the attempt of the retry loop that produced it.
StorageError(op, part, kind, attempt) ==
    [op |-> op, part |-> part, kind |-> kind, attempt |-> attempt]

Ok == [kind |-> "Ok"]
Err(e) == [kind |-> "Err", error |-> e]

Issue(op) == [p_calls EXCEPT ![op] = @ + 1]

\* Mutant: an empty payload is sent the multipart way.
UsesSinglePart_NotEmpty == total_len > 0 /\ part_num_bytes >= total_len

\* Mutant: a payload of exactly one part size goes the multipart way.
UsesSinglePart_Strict == part_num_bytes > total_len

\* if part_num_bytes >= total_len { put_single_part } else { put_multi_part }
UsesSinglePart == part_num_bytes >= total_len

\* put: the single-shot path; the first PutObject request is in flight.
PutSinglePart ==
    /\ p_pc = "start"
    /\ UsesSinglePart
    /\ p_pc' = "single"
    /\ p_num_attempts' = 0
    /\ p_calls' = Issue("put_object")
    /\ UNCHANGED << total_len, part_num_bytes, max_concurrent_upload, upload_id, parts,
                    uploads, admitted, completed_parts_res, abort_res, p_result >>
    /\ UNCHANGED << prefix, d_vars, f_vars >>

PutObjectOk ==
    /\ p_pc = "single"
    /\ p_result' = Some(Ok)
    /\ p_pc' = "done"
    /\ UNCHANGED << total_len, part_num_bytes, max_concurrent_upload, p_num_attempts,
                    upload_id, parts, uploads, admitted, completed_parts_res, abort_res,
                    p_calls >>
    /\ UNCHANGED << prefix, d_vars, f_vars >>

PutObjectRetry ==
    /\ p_pc = "single"
    /\ \E kind \in FailureKinds : RetryAgain(p_num_attempts, kind = "transient")
    /\ p_num_attempts' = p_num_attempts + 1
    /\ UNCHANGED << total_len, part_num_bytes, max_concurrent_upload, p_pc, upload_id,
                    parts, uploads, admitted, completed_parts_res, abort_res, p_result,
                    p_calls >>
    /\ UNCHANGED << prefix, d_vars, f_vars >>

PutObjectErr ==
    /\ p_pc = "single"
    /\ \E kind \in FailureKinds :
          /\ ~RetryAgain(p_num_attempts, kind = "transient")
          /\ p_result' = Some(Err(StorageError("put_object", 0, kind, p_num_attempts + 1)))
    /\ p_pc' = "done"
    /\ UNCHANGED << total_len, part_num_bytes, max_concurrent_upload, p_num_attempts,
                    upload_id, parts, uploads, admitted, completed_parts_res, abort_res,
                    p_calls >>
    /\ UNCHANGED << prefix, d_vars, f_vars >>

\* put_multi_part: create_multipart_upload is issued, its first request in flight.
PutMultiPart ==
    /\ p_pc = "start"
    /\ ~UsesSinglePart
    /\ p_pc' = "create"
    /\ p_num_attempts' = 0
    /\ p_calls' = Issue("create_multipart_upload")
    /\ UNCHANGED << total_len, part_num_bytes, max_concurrent_upload, upload_id, parts,
                    uploads, admitted, completed_parts_res, abort_res, p_result >>
    /\ UNCHANGED << prefix, d_vars, f_vars >>

\* assert!(len > 0) of create_multipart_requests
AssertLenPositive == total_len > 0

\* The session is created: create_multipart_requests checks its assertion and
\* starts reading the first range, or panics.
CreateMultipartUploadOk ==
    /\ p_pc = "create"
    /\ upload_id' = Some("upload-id")
    /\ p_num_attempts' = 0
    /\ IF AssertLenPositive
       THEN /\ p_pc' = "digest"
            /\ p_calls' = Issue("range_byte_stream")
       ELSE /\ p_pc' = "panicked"
            /\ UNCHANGED p_calls
    /\ UNCHANGED << total_len, part_num_bytes, max_concurrent_upload, parts, uploads,
                    admitted, completed_parts_res, abort_res, p_result >>
    /\ UNCHANGED << prefix, d_vars, f_vars >>

\* Mutant: a response without an upload id is taken as a created session.
CreateMultipartUploadNoId_GoesOn ==
    /\ p_pc = "create"
    /\ p_pc' = "digest"
    /\ p_num_attempts' = 0
    /\ p_calls' = Issue("range_byte_stream")
    /\ UNCHANGED << total_len, part_num_bytes, max_concurrent_upload, upload_id, parts,
                    uploads, admitted, completed_parts_res, abort_res, p_result >>
    /\ UNCHANGED << prefix, d_vars, f_vars >>

\* The response carries no upload id: .ok_or_else(InternalError)?
CreateMultipartUploadNoId ==
    /\ p_pc = "create"
    /\ p_result' = Some(Err(StorageError("create_multipart_upload", 0, "null_upload_id",
                                         p_num_attempts + 1)))
    /\ p_pc' = "done"
    /\ UNCHANGED << total_len, part_num_bytes, max_concurrent_upload, p_num_attempts,
                    upload_id, parts, uploads, admitted, completed_parts_res, abort_res,
                    p_calls >>
    /\ UNCHANGED << prefix, d_vars, f_vars >>

CreateMultipartUploadRetry ==
    /\ p_pc = "create"
    /\ \E kind \in FailureKinds : RetryAgain(p_num_attempts, kind = "transient")
    /\ p_num_attempts' = p_num_attempts + 1
    /\ UNCHANGED << total_len, part_num_bytes, max_concurrent_upload, p_pc, upload_id,
                    parts, uploads, admitted, completed_parts_res, abort_res, p_result,
                    p_calls >>
    /\ UNCHANGED << prefix, d_vars, f_vars >>

CreateMultipartUploadErr ==
    /\ p_pc = "create"
    /\ \E kind \in FailureKinds :
          /\ ~RetryAgain(p_num_attempts, kind = "transient")
          /\ p_result' = Some(Err(StorageError("create_multipart_upload", 0, kind,
                                               p_num_attempts + 1)))
    /\ p_pc' = "done"
    /\ UNCHANGED << total_len, part_num_bytes, max_concurrent_upload, p_num_attempts,
                    upload_id, parts, uploads, admitted, completed_parts_res, abort_res,
                    p_calls >>
    /\ UNCHANGED << prefix, d_vars, f_vars >>

\* The state of a retried upload_part future the stream has not started;
\* `failed` is history: the kinds of its failed attempts, in order; `late` is
\* history: the future failed after the future of a later part had failed.
Queued == [st |-> "queued", num_attempts |-> 0, out |-> None, failed |-> << >>,
           late |-> FALSE]

\* create_multipart_requests: the range is read and digested, the Part is pushed;
\* the next range is read, or the parts are handed to the buffered stream.
ComputeMd5Ok ==
    /\ p_pc = "digest"
    /\ LET multipart_id == Len(parts)
           multipart_range == MultipartRanges[multipart_id + 1]
           part == [part_number |-> multipart_id + 1,
                    range |-> multipart_range,
                    md5 |-> Md5(multipart_range)]
       IN /\ parts' = Append(parts, part)
          /\ IF Len(parts) + 1 < Len(MultipartRanges)
             THEN /\ p_calls' = Issue("range_byte_stream")
                  /\ UNCHANGED << p_pc, uploads >>
             ELSE /\ p_pc' = "upload"
                  /\ uploads' = [i \in 1 .. Len(MultipartRanges) |-> Queued]
                  /\ UNCHANGED p_calls
    /\ UNCHANGED << total_len, part_num_bytes, max_concurrent_upload, p_num_attempts,
                    upload_id, admitted, completed_parts_res, abort_res, p_result >>
    /\ UNCHANGED << prefix, d_vars, f_vars >>

\* create_multipart_requests: reading or digesting the range fails: `.await?`
ComputeMd5Err ==
    /\ p_pc = "digest"
    /\ p_result' = Some(Err(StorageError("range_byte_stream", Len(parts) + 1, "io", 1)))
    /\ p_pc' = "done"
    /\ UNCHANGED << total_len, part_num_bytes, max_concurrent_upload, p_num_attempts,
                    upload_id, parts, uploads, admitted, completed_parts_res, abort_res,
                    p_calls >>
    /\ UNCHANGED << prefix, d_vars, f_vars >>

Resolved(u) == u.st \in { "ok", "err" }

\* A part after part i has failed already.
FailsLate(i) == \E j \in (i + 1) .. Len(uploads) : uploads[j].st = "err"

\* Results the buffered stream has yielded: it yields in part order.
RECURSIVE YieldedFrom(_)
YieldedFrom(i) ==
    IF i <= Len(uploads) /\ Resolved(uploads[i]) THEN YieldedFrom(i + 1) ELSE i - 1
Yielded == YieldedFrom(1)

\* Mutant: the stream is buffer_unordered without a limit.
HasFreeSlot_Always == TRUE

\* .buffered(max_concurrent_upload): a future is taken from the iterator while
\* fewer than max_concurrent_upload are held (running or waiting to be yielded).
HasFreeSlot == admitted - Yielded < max_concurrent_upload

\* The stream starts the next part's retried upload_part.
UploadPartStart ==
    /\ p_pc = "upload"
    /\ admitted < Len(parts)
    /\ HasFreeSlot
    /\ admitted' = admitted + 1
    /\ uploads' = [uploads EXCEPT ![admitted + 1].st = "inflight"]
    /\ UNCHANGED << total_len, part_num_bytes, max_concurrent_upload, p_pc,
                    p_num_attempts, upload_id, parts, completed_parts_res, abort_res,
                    p_result, p_calls >>
    /\ UNCHANGED << prefix, d_vars, f_vars >>

\* Mutant: the completed part carries the index of the part, counted from 0.
CompletedPart_ZeroBased(part) ==
    [part_number |-> part.part_number - 1, e_tag |-> Some(<< "etag", part.md5 >>)]

\* CompletedPart::builder().set_e_tag(..).part_number(part.part_number)
CompletedPart(part) ==
    [part_number |-> part.part_number, e_tag |-> Some(<< "etag", part.md5 >>)]

UploadPartOk ==
    /\ p_pc = "upload"
    /\ \E i \in 1 .. Len(uploads) :
          /\ uploads[i].st = "inflight"
          /\ uploads' = [uploads EXCEPT ![i].st = "ok",
                                        ![i].out = Some(CompletedPart(parts[i]))]
    /\ UNCHANGED << total_len, part_num_bytes, max_concurrent_upload, p_pc,
                    p_num_attempts, upload_id, parts, admitted, completed_parts_res,
                    abort_res, p_result, p_calls >>
    /\ UNCHANGED << prefix, d_vars, f_vars >>

\* Mutant: every failure of upload_part is wrapped as Retry::Transient.
IsTransient_Always(kind) == TRUE

\* Retry::Transient is retryable, Retry::Permanent is not.
IsTransient(kind) == kind = "transient"

UploadPartRetry ==
    /\ p_pc = "upload"
    /\ \E i \in 1 .. Len(uploads) :
          /\ uploads[i].st = "inflight"
          /\ \E kind \in PartFailureKinds :
                /\ RetryAgain(uploads[i].num_attempts, IsTransient(kind))
                /\ uploads' = [uploads EXCEPT ![i].num_attempts = @ + 1,
                                              ![i].failed = Append(@, kind)]
    /\ UNCHANGED << total_len, part_num_bytes, max_concurrent_upload, p_pc,
                    p_num_attempts, upload_id, parts, admitted, completed_parts_res,
                    abort_res, p_result, p_calls >>
    /\ UNCHANGED << prefix, d_vars, f_vars >>

UploadPartErr ==
    /\ p_pc = "upload"
    /\ \E i \in 1 .. Len(uploads) :
          /\ uploads[i].st = "inflight"
          /\ \E kind \in PartFailureKinds :
                /\ ~RetryAgain(uploads[i].num_attempts, IsTransient(kind))
                /\ uploads' = [uploads EXCEPT
                       ![i].st = "err",
                       ![i].late = FailsLate(i),
                       ![i].failed = Append(@, kind),
                       ![i].out = Some(StorageError("upload_part", i, kind,
                                                    uploads[i].num_attempts + 1))]
    /\ UNCHANGED << total_len, part_num_bytes, max_concurrent_upload, p_pc,
                    p_num_attempts, upload_id, parts, admitted, completed_parts_res,
                    abort_res, p_result, p_calls >>
    /\ UNCHANGED << prefix, d_vars, f_vars >>

\* Mutant: the collection stops at the first error the stream yields.
AllCollected_FirstError ==
    \/ admitted = Len(parts) /\ Yielded = Len(parts)
    \/ \E i \in 1 .. Yielded : uploads[i].st = "err"

\* The stream is exhausted: every part was started and yielded its result.
AllCollected == admitted = Len(parts) /\ Yielded = Len(parts)

RECURSIVE CollectFrom(_, _)
\* .into_iter().map(|res| res.map_err(|e| e.into_inner())).collect():
\* the first Err in part order, or every CompletedPart.
CollectFrom(i, completed_parts) ==
    IF i > Len(uploads) THEN [kind |-> "Ok", parts |-> completed_parts]
    ELSE IF uploads[i].st = "err" THEN Err(Unwrap(uploads[i].out))
    ELSE CollectFrom(i + 1, Append(completed_parts, Unwrap(uploads[i].out)))

\* Mutant: the error collected is the one of the part that failed first in
\* time, which is the first failed part that did not fail late.
Collected_FirstInTime ==
    LET early == { i \in 1 .. Len(uploads) : uploads[i].st = "err" /\ ~uploads[i].late }
    IN IF early = {} THEN CollectFrom(1, << >>)
       ELSE Err(Unwrap(uploads[CHOOSE i \in early : \A j \in early : i <= j].out))

\* Mutant: the failed uploads are dropped from the collection instead of failing it.
Collected_DropsErrors == [kind |-> "Ok", parts |-> << >>]

Collected == CollectFrom(1, << >>)

\* Mutant: the completion call is issued as soon as the results yielded so far
\* are all Ok, without waiting for the stream to end.
UploadsSucceeded_NoBarrier ==
    /\ p_pc = "upload"
    /\ Yielded >= 1
    /\ \A i \in 1 .. Yielded : uploads[i].st = "ok"
    /\ completed_parts_res' =
           Some([kind |-> "Ok", parts |-> [i \in 1 .. Yielded |-> Unwrap(uploads[i].out)]])
    /\ p_pc' = "complete"
    /\ p_num_attempts' = 0
    /\ p_calls' = Issue("complete_multipart_upload")
    /\ UNCHANGED << total_len, part_num_bytes, max_concurrent_upload, upload_id, parts,
                    uploads, admitted, abort_res, p_result >>
    /\ UNCHANGED << prefix, d_vars, f_vars >>

\* Ok(completed_parts): complete_multipart_upload is issued.
UploadsSucceeded ==
    /\ p_pc = "upload"
    /\ AllCollected
    /\ Collected.kind = "Ok"
    /\ completed_parts_res' = Some(Collected)
    /\ p_pc' = "complete"
    /\ p_num_attempts' = 0
    /\ p_calls' = Issue("complete_multipart_upload")
    /\ UNCHANGED << total_len, part_num_bytes, max_concurrent_upload, upload_id, parts,
                    uploads, admitted, abort_res, p_result >>
    /\ UNCHANGED << prefix, d_vars, f_vars >>

\* Mutant: the Err arm returns the upload error without the abort call.
UploadsFailed_NoAbort ==
    /\ p_pc = "upload"
    /\ AllCollected
    /\ Collected.kind = "Err"
    /\ completed_parts_res' = Some(Collected)
    /\ p_result' = Some(Err(Collected.error))
    /\ p_pc' = "done"
    /\ UNCHANGED << total_len, part_num_bytes, max_concurrent_upload, p_num_attempts,
                    upload_id, parts, uploads, admitted, abort_res, p_calls >>
    /\ UNCHANGED << prefix, d_vars, f_vars >>

\* Err(upload_error): abort_multipart_upload is issued.
UploadsFailed ==
    /\ p_pc = "upload"
    /\ AllCollected
    /\ Collected.kind = "Err"
    /\ completed_parts_res' = Some(Collected)
    /\ p_pc' = "abort"
    /\ p_num_attempts' = 0
    /\ p_calls' = Issue("abort_multipart_upload")
    /\ UNCHANGED << total_len, part_num_bytes, max_concurrent_upload, upload_id, parts,
                    uploads, admitted, abort_res, p_result >>
    /\ UNCHANGED << prefix, d_vars, f_vars >>

CompleteMultipartUploadOk ==
    /\ p_pc = "complete"
    /\ p_result' = Some(Ok)
    /\ p_pc' = "done"
    /\ UNCHANGED << total_len, part_num_bytes, max_concurrent_upload, p_num_attempts,
                    upload_id, parts, uploads, admitted, completed_parts_res, abort_res,
                    p_calls >>
    /\ UNCHANGED << prefix, d_vars, f_vars >>

CompleteMultipartUploadRetry ==
    /\ p_pc = "complete"
    /\ \E kind \in FailureKinds : RetryAgain(p_num_attempts, kind = "transient")
    /\ p_num_attempts' = p_num_attempts + 1
    /\ UNCHANGED << total_len, part_num_bytes, max_concurrent_upload, p_pc, upload_id,
                    parts, uploads, admitted, completed_parts_res, abort_res, p_result,
                    p_calls >>
    /\ UNCHANGED << prefix, d_vars, f_vars >>

CompleteMultipartUploadErr ==
    /\ p_pc = "complete"
    /\ \E kind \in FailureKinds :
          /\ ~RetryAgain(p_num_attempts, kind = "transient")
          /\ p_result' = Some(Err(StorageError("complete_multipart_upload", 0, kind,
                                               p_num_attempts + 1)))
    /\ p_pc' = "done"
    /\ UNCHANGED << total_len, part_num_bytes, max_concurrent_upload, p_num_attempts,
                    upload_id, parts, uploads, admitted, completed_parts_res, abort_res,
                    p_calls >>
    /\ UNCHANGED << prefix, d_vars, f_vars >>

\* Mutant: a failed abort is propagated with `?`.
ErrorAfterAbort_Propagates(upload_error, abort_multipart_upload_res) ==
    IF abort_multipart_upload_res.kind = "Err"
    THEN abort_multipart_upload_res.error
    ELSE upload_error

\* Err(upload_error) => { ...abort...; Err(upload_error) }
ErrorAfterAbort(upload_error, abort_multipart_upload_res) == upload_error

\* The abort call returns Ok: put returns the upload error.
AbortMultipartUploadOk ==
    /\ p_pc = "abort"
    /\ abort_res' = Some(Ok)
    /\ p_result' = Some(Err(ErrorAfterAbort(Unwrap(completed_parts_res).error, Ok)))
    /\ p_pc' = "done"
    /\ UNCHANGED << total_len, part_num_bytes, max_concurrent_upload, p_num_attempts,
                    upload_id, parts, uploads, admitted, completed_parts_res, p_calls >>
    /\ UNCHANGED << prefix, d_vars, f_vars >>

AbortMultipartUploadRetry ==
    /\ p_pc = "abort"
    /\ \E kind \in FailureKinds : RetryAgain(p_num_attempts, kind = "transient")
    /\ p_num_attempts' = p_num_attempts + 1
    /\ UNCHANGED << total_len, part_num_bytes, max_concurrent_upload, p_pc, upload_id,
                    parts, uploads, admitted, completed_parts_res, abort_res, p_result,
                    p_calls >>
    /\ UNCHANGED << prefix, d_vars, f_vars >>

\* The abort call fails: the failure is logged, put returns the upload error.
AbortMultipartUploadErr ==
    /\ p_pc = "abort"
    /\ \E kind \in FailureKinds :
          /\ ~RetryAgain(p_num_attempts, kind = "transient")
          /\ LET abort_error ==
                     StorageError("abort_multipart_upload", 0, kind, p_num_attempts + 1)
             IN /\ abort_res' = Some(Err(abort_error))
                /\ p_result' = Some(Err(ErrorAfterAbort(Unwrap(completed_parts_res).error,
                                                        Err(abort_error))))
    /\ p_pc' = "done"
    /\ UNCHANGED << total_len, part_num_bytes, max_concurrent_upload, p_num_attempts,
                    upload_id, parts, uploads, admitted, completed_parts_res, p_calls >>
    /\ UNCHANGED << prefix, d_vars, f_vars >>

\* No bulk_delete is running.
BulkDeleteIdle ==
    /\ paths = << >>
    /\ d_pc = "idle"
    /\ chunk_idx = 1
    /\ d_num_attempts = 0
    /\ error = None
    /\ successes = << >>
    /\ failures = << >>
    /\ unattempted = << >>
    /\ delete_objects_res = None
    /\ d_result = None
    /\ d_calls = << >>
    /\ d_errs = << >>
    /\ d_returned = {}
    /\ d_sent = << >>

PutInit ==
    /\ prefix \in Prefixes
    /\ total_len \in 0 .. MaxLen
    /\ part_num_bytes \in 1 .. MaxPartLen
    /\ max_concurrent_upload \in 1 .. MaxConcurrent
    /\ p_pc = "start"
    /\ p_num_attempts = 0
    /\ upload_id = None
    /\ parts = << >>
    /\ uploads = << >>
    /\ admitted = 0
    /\ completed_parts_res = None
    /\ abort_res = None
    /\ p_result = None
    /\ p_calls = NoCalls
    /\ BulkDeleteIdle
    /\ FacadeIdle

PutNext ==
    \/ PutSinglePart
    \/ PutObjectOk
    \/ PutObjectRetry
    \/ PutObjectErr
    \/ PutMultiPart
    \/ CreateMultipartUploadOk
    \/ CreateMultipartUploadNoId
    \/ CreateMultipartUploadRetry
    \/ CreateMultipartUploadErr
    \/ ComputeMd5Ok
    \/ ComputeMd5Err
    \/ UploadPartStart
    \/ UploadPartOk
    \/ UploadPartRetry
    \/ UploadPartErr
    \/ UploadsSucceeded
    \/ UploadsFailed
    \/ CompleteMultipartUploadOk
    \/ CompleteMultipartUploadRetry
    \/ CompleteMultipartUploadErr
    \/ AbortMultipartUploadOk
    \/ AbortMultipartUploadRetry
    \/ AbortMultipartUploadErr

PutSpec == PutInit /\ [][PutNext]_vars

\* The runtime polls the put until it returns, and every request is answered:
\* a step that can be taken is taken.
PutFairSpec == PutSpec /\ WF_vars(PutNext)

\* ------------- parse_s3_uri, key / relative_path, chunk_range, check_connectivity

\* The tokens an address is written with: ":", "/", "+" and names.
UriTokens == { "/", ":", "s3", "bucket", "path" }

UriSchemes == { << "s3" >>, << "s3", "+", "localstack" >>, << "ram" >> }

SchemeSeparator == << ":", "/", "/" >>

\* Token strings of at most n tokens over the set `tokens`.
Strings(tokens, n) == UNION { [1 .. k -> tokens] : k \in 0 .. n }

\* uri.as_str() of the addresses parse_s3_uri is called with.
Uris == { scheme \o SchemeSeparator \o rest :
              scheme \in UriSchemes, rest \in Strings(UriTokens, MaxUriLen) }

\* s[i ..] starts with w
HasAt(s, i, w) == i + Len(w) - 1 <= Len(s) /\ SubSeq(s, i, i + Len(w) - 1) = w

\* The first index >= from where s has the token tok; Len(s) + 1 when none.
IndexOf(s, from, tok) ==
    LET found == { k \in from .. Len(s) : s[k] = tok }
    IN IF found = {} THEN Len(s) + 1
       ELSE CHOOSE k \in found : \A j \in found : k <= j

\* s3(\+[^:]+)?:// with "s3" matched at i: the index after "://", 0 for no match.
\* [^:]+ stops at the first ":", which has to start "://".
S3UriPtnScheme(s, i) ==
    IF HasAt(s, i + 1, SchemeSeparator) THEN i + 4
    ELSE IF HasAt(s, i + 1, << "+" >>)
         THEN LET colon == IndexOf(s, i + 2, ":")
              IN IF colon > i + 2 /\ HasAt(s, colon, SchemeSeparator)
                 THEN colon + 3 ELSE 0
         ELSE 0

\* S3_URI_PTN matched at index i of s: None, or the groups bucket and path.
\* (?P<bucket>[^/]+) takes the tokens up to the next "/", at least one;
\* (/(?P<path>.+))? takes what follows that "/" when there is something.
S3UriPtnAt(s, i) ==
    IF ~HasAt(s, i, << "s3" >>) THEN None
    ELSE LET after == S3UriPtnScheme(s, i)
             slash == IndexOf(s, after, "/")
         IN IF after = 0 \/ slash = after THEN None
            ELSE Some([ bucket |-> SubSeq(s, after, slash - 1),
                        path |-> IF slash < Len(s)
                                 THEN Some(SubSeq(s, slash + 1, Len(s)))
                                 ELSE None ])

\* Regex::captures: the match at the leftmost index where the pattern matches;
\* the pattern has no anchor.
Captures(s) ==
    LET starts == { i \in 1 .. Len(s) : IsSome(S3UriPtnAt(s, i)) }
    IN IF starts = {} THEN None
       ELSE S3UriPtnAt(s, CHOOSE i \in starts : \A j \in starts : i <= j)

\* parse_s3_uri(uri): Option of (bucket, path)
ParseS3UriOf(uri) ==
    LET cap == Captures(uri)
    IN IF ~IsSome(cap) THEN None
       ELSE Some([ bucket |-> Unwrap(cap).bucket,
                   path |-> IF IsSome(Unwrap(cap).path)
                            THEN Unwrap(Unwrap(cap).path)
                            ELSE << >> ])

\* The tokens a path is written with.
PathTokens == { "/", ".", "..", "foo", "bar" }

\* Two names are never adjacent: a separator stands between them.
IsPath(p) == \A i \in 1 .. Len(p) - 1 : p[i] = "/" \/ p[i + 1] = "/"

\* The relative paths key() is called with.
RelativePaths ==
    { p \in Strings(PathTokens, MaxPathLen) : IsPath(p) /\ ~IsAbsolute(p) }

\* The prefixes of the backends key() and relative_path() are called on.
KeyPrefixes == { << >>, << "indexes" >>, << "indexes", "/" >>,
                 << "indexes", "/", "v1" >> }

\* The arguments chunk_range is called with: 0..len and chunk_size.
ChunkRangeArgs == [ len : 0 .. MaxChunkLen, chunk_size : 1 .. MaxChunkSize ]

\* let key = self.key(relative_path)
CallKey ==
    /\ f_op = "key"
    /\ f_pc = "start"
    /\ f_key' = Some(Key(f_arg))
    /\ f_pc' = "keyed"
    /\ UNCHANGED << f_op, f_arg, f_ret, f_requests >>
    /\ UNCHANGED << prefix, d_vars, p_vars >>

\* self.relative_path(&key)
CallRelativePath ==
    /\ f_op = "key"
    /\ f_pc = "keyed"
    /\ f_ret' = RelativePath(Unwrap(f_key))
    /\ f_pc' = "done"
    /\ UNCHANGED << f_op, f_arg, f_key, f_requests >>
    /\ UNCHANGED << prefix, d_vars, p_vars >>

\* chunk_range(0..len, chunk_size).collect()
CallChunkRange ==
    /\ f_op = "chunk_range"
    /\ f_pc = "start"
    /\ f_ret' = Some(ChunkRangeFrom(0, f_arg.len, f_arg.chunk_size))
    /\ f_pc' = "done"
    /\ UNCHANGED << f_op, f_arg, f_key, f_requests >>
    /\ UNCHANGED << prefix, d_vars, p_vars >>

\* parse_s3_uri(&uri)
CallParseS3Uri ==
    /\ f_op = "parse_s3_uri"
    /\ f_pc = "start"
    /\ f_ret' = ParseS3UriOf(f_arg)
    /\ f_pc' = "done"
    /\ UNCHANGED << f_op, f_arg, f_key, f_requests >>
    /\ UNCHANGED << prefix, d_vars, p_vars >>

\* check_connectivity: list_objects_v2().bucket(..).max_keys(1).send() is sent.
CheckConnectivitySend ==
    /\ f_op = "check_connectivity"
    /\ f_pc = "start"
    /\ f_requests' = f_requests + 1
    /\ f_pc' = "call"
    /\ UNCHANGED << f_op, f_arg, f_key, f_ret >>
    /\ UNCHANGED << prefix, d_vars, p_vars >>

\* .await?; Ok(())
CheckConnectivityOk ==
    /\ f_op = "check_connectivity"
    /\ f_pc = "call"
    /\ f_ret' = Some(Ok)
    /\ f_pc' = "done"
    /\ UNCHANGED << f_op, f_arg, f_key, f_requests >>
    /\ UNCHANGED << prefix, d_vars, p_vars >>

\* .await? : the error of the request is returned.
CheckConnectivityErr ==
    /\ f_op = "check_connectivity"
    /\ f_pc = "call"
    /\ \E kind \in FailureKinds :
          f_ret' = Some(Err(StorageError("list_objects_v2", 0, kind, f_requests)))
    /\ f_pc' = "done"
    /\ UNCHANGED << f_op, f_arg, f_key, f_requests >>
    /\ UNCHANGED << prefix, d_vars, p_vars >>

\* usize::MAX of a machine with UsizeBits bits
UsizeMax == 2 ^ UsizeBits - 1

\* a - b in usize arithmetic without overflow checks
WrappingSub(a, b) == (a - b) % (2 ^ UsizeBits)

\* The ranges get_slice is called with: start <= end
SliceRanges == { r \in [ start : 0 .. UsizeMax, end : 0 .. UsizeMax ] : r.start <= r.end }

\* format!("bytes={}-{}", range.start, range.end - 1)
RangeStr(range) == << "bytes=", range.start, "-", WrappingSub(range.end, 1) >>

\* range.end - 1 overflows: a build with overflow checks panics there
SubOverflows(range) == range.end < 1

\* get_slice -> get_to_vec: create_get_object_request builds the Range header
\* and the first GetObject request is sent.
GetSliceSend ==
    /\ f_op = "get_slice"
    /\ f_pc = "start"
    /\ \E overflow_checks \in BOOLEAN :
          IF SubOverflows(f_arg) /\ overflow_checks
          THEN /\ f_pc' = "panicked"
               /\ UNCHANGED << f_key, f_requests >>
          ELSE /\ f_key' = Some(RangeStr(f_arg))
               /\ f_requests' = f_requests + 1
               /\ f_pc' = "call"
    /\ UNCHANGED << f_op, f_arg, f_ret >>
    /\ UNCHANGED << prefix, d_vars, p_vars >>

\* The request fails and retry() builds and sends it again.
GetObjectRetry ==
    /\ f_op = "get_slice"
    /\ f_pc = "call"
    /\ \E kind \in FailureKinds : RetryAgain(f_requests - 1, kind = "transient")
    /\ f_requests' = f_requests + 1
    /\ UNCHANGED << f_op, f_arg, f_pc, f_key, f_ret >>
    /\ UNCHANGED << prefix, d_vars, p_vars >>

\* The request fails and retry() gives up: get_slice returns the error.
GetObjectErr ==
    /\ f_op = "get_slice"
    /\ f_pc = "call"
    /\ \E kind \in FailureKinds :
          /\ ~RetryAgain(f_requests - 1, kind = "transient")
          /\ f_ret' = Some(Err(StorageError("get_object", 0, kind, f_requests)))
    /\ f_pc' = "done"
    /\ UNCHANGED << f_op, f_arg, f_key, f_requests >>
    /\ UNCHANGED << prefix, d_vars, p_vars >>

\* The request succeeds and download_all reads the body: get_slice returns the
\* bytes the remote sent, or the error of the read.
GetObjectOk ==
    /\ f_op = "get_slice"
    /\ f_pc = "call"
    /\ \E downloaded \in BOOLEAN :
          f_ret' = IF downloaded
                   THEN Some(Ok)
                   ELSE Some(Err(StorageError("download_all", 0, "permanent", f_requests)))
    /\ f_pc' = "done"
    /\ UNCHANGED << f_op, f_arg, f_key, f_requests >>
    /\ UNCHANGED << prefix, d_vars, p_vars >>

FacadeInit ==
    /\ \/ /\ f_op = "get_slice"
          /\ prefix \in Prefixes
          /\ f_arg \in SliceRanges
       \/ /\ f_op = "key"
          /\ prefix \in KeyPrefixes
          /\ f_arg \in RelativePaths
       \/ /\ f_op = "chunk_range"
          /\ prefix \in Prefixes
          /\ f_arg \in ChunkRangeArgs
       \/ /\ f_op = "parse_s3_uri"
          /\ prefix \in Prefixes
          /\ f_arg \in Uris
       \/ /\ f_op = "check_connectivity"
          /\ prefix \in Prefixes
          /\ f_arg = << >>
    /\ f_pc = "start"
    /\ f_key = None
    /\ f_ret = None
    /\ f_requests = 0
    /\ BulkDeleteIdle
    /\ PutIdle

FacadeNext ==
    \/ CallKey
    \/ CallRelativePath
    \/ CallChunkRange
    \/ CallParseS3Uri
    \/ CheckConnectivitySend
    \/ CheckConnectivityOk
    \/ CheckConnectivityErr
    \/ GetSliceSend
    \/ GetObjectRetry
    \/ GetObjectErr
    \/ GetObjectOk

FacadeSpec == FacadeInit /\ [][FacadeNext]_vars

\* put and the small operations, each started from its own initial state.
StorageInit == PutInit \/ FacadeInit

StorageNext == PutNext \/ FacadeNext

StorageSpec == StorageInit /\ [][StorageNext]_vars

\* ------------------------------------------------------ bulk_delete: claims

Range(f) == { f[i] : i \in DOMAIN f }

ChunkKeys(c) == Range(Chunk(c))

\* Chunks whose retried call failed as a whole.
FailedChunks == { d_errs[i].chunk : i \in DOMAIN d_errs }

Returned == d_pc = "done"
Outcome == Unwrap(d_result)

\* C1: whenever bulk_delete returns a BulkDeleteError, its successes, failures
\* and unattempted are pairwise disjoint and their union is the set of input
\* paths, whatever the remote answered (keys omitted, key fields omitted).
C1_OutcomePartitionsInput ==
    (Returned /\ Outcome.kind = "Err") =>
        LET S == Range(Outcome.successes)
            F == DOMAIN Outcome.failures
            U == Range(Outcome.unattempted)
        IN /\ S \cap F = {}
           /\ S \cap U = {}
           /\ F \cap U = {}
           /\ S \cup F \cup U = Range(paths)

\* C2: once the call of a chunk has failed as a whole, no call is issued for a
\* later chunk, and when bulk_delete returns every key of every later chunk is
\* in the outcome's unattempted.
C2_FailFastAcrossBatches ==
    \A b \in FailedChunks : \A c \in (b + 1) .. NumChunks :
        /\ d_calls[c] = 0
        /\ ~(d_pc = "call" /\ chunk_idx = c)
        /\ Returned =>
              /\ Outcome.kind = "Err"
              /\ ChunkKeys(c) \subseteq Range(Outcome.unattempted)

\* A run that returned after the first of three chunks failed.
C2_Witness ==
    /\ Returned
    /\ NumChunks = 3
    /\ FailedChunks = {1}
    /\ Len(unattempted) = 7

\* C3: a whole-batch failure is recorded as the top-level error, the keys of
\* the failed chunk are in unattempted, and the recorded error is the first
\* whole-batch error: a later one never replaces it.
C3_FirstBatchErrorKept ==
    /\ (d_errs = << >>) => error = None
    /\ (d_errs # << >>) => error = Some(d_errs[1])
    /\ \A c \in FailedChunks : ChunkKeys(c) \subseteq Range(unattempted)
    /\ (Returned /\ d_errs # << >>) =>
          /\ Outcome.kind = "Err"
          /\ Outcome.error = Some(d_errs[1])
          /\ ChunkKeys(d_errs[1].chunk) \subseteq Range(Outcome.unattempted)

\* A run whose second chunk failed after the retries were used up, the first
\* chunk having been answered.
C3_Witness ==
    /\ Returned
    /\ d_errs # << >>
    /\ d_errs[1].chunk = 2
    /\ d_errs[1].attempt = max_attempts
    /\ NumChunks = 3

\* C4: after a response is folded, every key it reports deleted or NoSuchKey
\* is in successes, and every key it reports with another code (or none) is in
\* failures with the reported code and message; the entry is keyed by the
\* key with the prefix stripped, which is one of the chunk's input paths.
C4_PerKeyFolding ==
    IsSome(delete_objects_res) =>
        LET output == Unwrap(delete_objects_res)
            deleted == IF IsSome(output.deleted) THEN Unwrap(output.deleted) ELSE << >>
            errors == IF IsSome(output.errors) THEN Unwrap(output.errors) ELSE << >>
            Logical(key) == Unwrap(StripPrefix(key, prefix))
        IN /\ \A i \in DOMAIN deleted :
                 IsSome(deleted[i].key) =>
                     LET path == Logical(Unwrap(deleted[i].key))
                     IN /\ path \in Range(successes)
                        /\ path \in ChunkKeys(chunk_idx - 1)
                        /\ Key(path) = Unwrap(deleted[i].key)
           /\ \A i \in DOMAIN errors :
                 IsSome(errors[i].key) =>
                     LET path == Logical(Unwrap(errors[i].key))
                     IN /\ path \in ChunkKeys(chunk_idx - 1)
                        /\ Key(path) = Unwrap(errors[i].key)
                        /\ IF errors[i].code = Some("NoSuchKey")
                           THEN path \in Range(successes)
                           ELSE /\ path \in DOMAIN failures
                                /\ failures[path] = [code |-> errors[i].code,
                                                     message |-> errors[i].message]

\* The response of the repository's test: one key deleted, one NoSuchKey, one
\* AccessDenied; and a response with an error that carries no code.
C4_Witness ==
    /\ IsSome(delete_objects_res)
    /\ chunk_idx = 3
    /\ successes = << <<"foo">>, <<"bar">>, <<"dir", "/", "foobar">> >>
    /\ DOMAIN failures = { <<"baz">>, <<"foobaz">> }
    /\ failures[<<"baz">>].code = Some("AccessDenied")
    /\ failures[<<"foobaz">>].code = None

\* C5: bulk_delete returns Ok exactly when no call failed as a whole and no
\* per-key failure was recorded; otherwise it returns the four collections as
\* they were accumulated, successes included.
C5_OkIffNoErrorNoFailure ==
    Returned =>
        /\ (Outcome.kind = "Ok") <=> (d_errs = << >> /\ DOMAIN failures = {})
        /\ Outcome.kind \in {"Ok", "Err"}
        /\ (Outcome.kind = "Err") =>
              /\ Outcome.error = error
              /\ Outcome.successes = successes
              /\ Outcome.failures = failures
              /\ Outcome.unattempted = unattempted

\* A run that returned an Err carrying deleted keys, a per-key failure and no
\* top-level error.
C5_Witness ==
    /\ Returned
    /\ Outcome.kind = "Err"
    /\ Outcome.error = None
    /\ Len(Outcome.successes) > 0
    /\ DOMAIN Outcome.failures # {}

\* -------------------------------------------------------------- put: claims

PutReturned == p_pc = "done"
PutOutcome == Unwrap(p_result)

Issued(op) == p_calls[op]

\* The session was created and every Part was built.
PartsBuilt == IsSome(upload_id) /\ Len(uploads) > 0

FailedParts == { i \in 1 .. Len(uploads) : uploads[i].st = "err" }
PartErrors == { Unwrap(uploads[i].out) : i \in FailedParts }

\* The part uploads are over: put went on to the completion or the abort call.
UploadsOver == p_pc \in { "complete", "abort", "done" }

\* C6: with the session created and the parts built, the completion call is
\* issued, and no abort call, when every part upload succeeded; the abort
\* call is issued, and the completion call never, when a part upload failed
\* (permanent error or retries used up).
C6_CompleteXorAbort ==
    PartsBuilt =>
        /\ (p_pc = "upload") =>
              /\ Issued("complete_multipart_upload") = 0
              /\ Issued("abort_multipart_upload") = 0
        /\ (UploadsOver /\ FailedParts = {}) =>
              /\ Issued("complete_multipart_upload") = 1
              /\ Issued("abort_multipart_upload") = 0
        /\ (FailedParts # {}) =>
              /\ Issued("complete_multipart_upload") = 0
              /\ UploadsOver => Issued("abort_multipart_upload") = 1

\* Three parts: one succeeded, one used up its retries, one failed for good;
\* the put has returned.
C6_Witness ==
    /\ PutReturned
    /\ Len(uploads) = 3
    /\ \E i, j, k \in 1 .. 3 :
          /\ uploads[i].st = "ok"
          /\ uploads[j].st = "err"
          /\ Unwrap(uploads[j].out).kind = "transient"
          /\ Unwrap(uploads[j].out).attempt = max_attempts
          /\ uploads[k].st = "err"
          /\ Unwrap(uploads[k].out).kind = "permanent"
    /\ Issued("abort_multipart_upload") = 1

\* C7: when a part upload has failed, the put returns an error that is the
\* final error of a failed part (of the failed part, when there is one), and
\* the abort call was issued exactly once, however many parts failed; it is
\* never issued a second time.
C7_AbortOnceWithPartError ==
    /\ Issued("abort_multipart_upload") <= 1
    /\ (PutReturned /\ FailedParts # {}) =>
          /\ PutOutcome.kind = "Err"
          /\ PutOutcome.error \in PartErrors
          /\ PutOutcome.error.op = "upload_part"
          /\ Issued("abort_multipart_upload") = 1

\* Two of three parts failed, with at least two upload slots, and the put returned.
C7_Witness ==
    /\ PutReturned
    /\ max_concurrent_upload >= 2
    /\ Len(uploads) = 3
    /\ Cardinality(FailedParts) = 2
    /\ Issued("abort_multipart_upload") = 1

\* C8: when the abort call itself fails, the put still returns the error of
\* the part upload: the abort error is not returned.
C8_AbortErrorSwallowed ==
    (PutReturned /\ IsSome(abort_res) /\ Unwrap(abort_res).kind = "Err") =>
        /\ PutOutcome.kind = "Err"
        /\ PutOutcome.error \in PartErrors
        /\ PutOutcome.error # Unwrap(abort_res).error
        /\ PutOutcome.error.op # "abort_multipart_upload"

\* The abort call failed after its retries were used up.
C8_Witness ==
    /\ PutReturned
    /\ IsSome(abort_res)
    /\ Unwrap(abort_res).kind = "Err"
    /\ Unwrap(abort_res).error.attempt = max_attempts

\* C9: a session that was created is, when the put returns, completed (the
\* completion call succeeded) or aborted (an abort call was issued), also
\* when the digest computation, a part upload or the completion call failed.
C9_SessionCompletedOrAborted ==
    (PutReturned /\ IsSome(upload_id)) =>
        \/ /\ PutOutcome.kind = "Ok"
           /\ Issued("complete_multipart_upload") = 1
        \/ Issued("abort_multipart_upload") >= 1

\* C10: when the create-session call fails or returns no upload id, the put
\* returns that error, and no range is read, no part upload started, no
\* completion call and no abort call issued.
C10_CreateFailureIsFatal ==
    /\ ~IsSome(upload_id) =>
          /\ Issued("range_byte_stream") = 0
          /\ parts = << >>
          /\ uploads = << >>
          /\ admitted = 0
          /\ Issued("complete_multipart_upload") = 0
          /\ Issued("abort_multipart_upload") = 0
    /\ (PutReturned /\ Issued("create_multipart_upload") = 1 /\ ~IsSome(upload_id)) =>
          /\ PutOutcome.kind = "Err"
          /\ PutOutcome.error.op = "create_multipart_upload"
          /\ PutOutcome.error.attempt = p_num_attempts + 1

\* The create-session call failed on its last attempt and the put returned.
C10_Witness ==
    /\ PutReturned
    /\ Issued("create_multipart_upload") = 1
    /\ ~IsSome(upload_id)
    /\ PutOutcome.error.kind = "transient"
    /\ PutOutcome.error.attempt = max_attempts

\* C11: put takes exactly one of the two paths. With a part size >= the total
\* length only PutObject is issued: no session is created, nothing is read
\* for a digest, no part is uploaded. With a smaller part size the session
\* call is issued and PutObject never is.
C11_OnePathChosen ==
    /\ (part_num_bytes >= total_len) =>
          /\ Issued("create_multipart_upload") = 0
          /\ Issued("range_byte_stream") = 0
          /\ Issued("complete_multipart_upload") = 0
          /\ Issued("abort_multipart_upload") = 0
          /\ upload_id = None
          /\ uploads = << >>
          /\ (p_pc # "start") => Issued("put_object") = 1
    /\ (part_num_bytes < total_len) =>
          /\ Issued("put_object") = 0
          /\ (p_pc # "start") => Issued("create_multipart_upload") = 1

\* A payload exactly as long as the part size was put in one shot.
C11_Witness ==
    /\ PutReturned
    /\ part_num_bytes = total_len
    /\ Issued("put_object") = 1
    /\ PutOutcome.kind = "Ok"

\* The failed attempts of part i's retried upload, oldest first.
FailedAttempts(i) == uploads[i].failed

\* C12: a part attempt that fails for good (the remote error is not retryable,
\* or the payload range cannot be read) is the part's last attempt, whatever
\* is left of the retry budget: the part is failed and its final error is the
\* error of that attempt. When the first attempt fails so, it is the only one.
C12_PermanentNeverRetried ==
    \A i \in 1 .. Len(uploads) :
        \A j \in 1 .. Len(FailedAttempts(i)) :
            FailedAttempts(i)[j] \in { "permanent", "io" } =>
                /\ j = Len(FailedAttempts(i))
                /\ uploads[i].num_attempts = j - 1
                /\ uploads[i].st = "err"
                /\ uploads[i].out =
                       Some(StorageError("upload_part", i, FailedAttempts(i)[j], j))

\* One part failed for good on its first attempt, another could not read its
\* range on the second attempt; both had attempts left.
C12_Witness ==
    /\ p_pc = "upload"
    /\ \E i, k \in 1 .. Len(uploads) :
          /\ FailedAttempts(i) = << "permanent" >>
          /\ uploads[i].st = "err"
          /\ FailedAttempts(k) = << "transient", "io" >>
          /\ uploads[k].st = "err"

\* C13: a retried operation is attempted at most max_attempts times; when all
\* its attempts fail as transient it stops after max_attempts attempts and
\* the error it returns is the error of the last of them.
C13_AtMostMaxAttempts ==
    /\ p_num_attempts + 1 <= max_attempts
    /\ \A i \in 1 .. Len(uploads) :
          /\ uploads[i].num_attempts + 1 <= max_attempts
          /\ Len(FailedAttempts(i)) <= max_attempts
          /\ (uploads[i].st = "err" /\ Unwrap(uploads[i].out).kind = "transient") =>
                /\ FailedAttempts(i) = [j \in 1 .. max_attempts |-> "transient"]
                /\ Unwrap(uploads[i].out).attempt = max_attempts
    /\ (PutReturned /\ PutOutcome.kind = "Err") =>
          /\ PutOutcome.error.attempt <= max_attempts
          /\ (PutOutcome.error.kind = "transient") =>
                PutOutcome.error.attempt = max_attempts
    /\ (IsSome(abort_res) /\ Unwrap(abort_res).kind = "Err") =>
          /\ Unwrap(abort_res).error.attempt <= max_attempts
          /\ (Unwrap(abort_res).error.kind = "transient") =>
                Unwrap(abort_res).error.attempt = max_attempts

\* A part upload used up its attempts and the put returned its error; another
\* part succeeded on its last attempt.
C13_Witness ==
    /\ PutReturned
    /\ PutOutcome.kind = "Err"
    /\ PutOutcome.error.op = "upload_part"
    /\ PutOutcome.error.kind = "transient"
    /\ PutOutcome.error.attempt = max_attempts
    /\ \E i \in 1 .. Len(uploads) :
          /\ uploads[i].st = "ok"
          /\ uploads[i].num_attempts = max_attempts - 1

\* ------------------------------------------------- the small operations: claims

FacadeReturned(op) == f_op = op /\ f_pc = "done"

\* C14: for every relative path P and every prefix, relative_path(key(P))
\* returns P: the same path, component for component.
C14_KeyRoundTrip ==
    FacadeReturned("key") =>
        /\ IsSome(f_ret)
        /\ Components(Unwrap(f_ret)) = Components(f_arg)

\* The ranges are a split of [0, L) into chunks of size S: contiguous, without
\* overlap, each of size S but the last, which has 1 to S bytes, and covering
\* exactly [0, L); no range at all for L = 0.
IsSplit(ranges, L, S) ==
    /\ (L = 0) <=> (ranges = << >>)
    /\ (ranges # << >>) =>
          /\ ranges[1].start = 0
          /\ ranges[Len(ranges)].end = L
    /\ \A i \in 1 .. Len(ranges) :
          /\ ranges[i].end - ranges[i].start >= 1
          /\ ranges[i].end - ranges[i].start <= S
          /\ (i < Len(ranges)) =>
                /\ ranges[i].end - ranges[i].start = S
                /\ ranges[i + 1].start = ranges[i].end
    /\ { x \in 0 .. L : \E i \in 1 .. Len(ranges) :
                            ranges[i].start <= x /\ x < ranges[i].end } = 0 .. (L - 1)

\* C15: chunk_range splits [0, L) by S as IsSplit says, for every L >= 0 and
\* S > 0; and the ranges of the parts of a multipart put are this split of
\* [0, total_len) by part_num_bytes, part after part while they are built.
C15_ChunkRangeSplits ==
    /\ FacadeReturned("chunk_range") =>
          IsSplit(Unwrap(f_ret), f_arg.len, f_arg.chunk_size)
    /\ \A i \in 1 .. Len(parts) :
          parts[i].range = [ start |-> (i - 1) * part_num_bytes,
                             end |-> Min(i * part_num_bytes, total_len) ]
    /\ (Len(uploads) > 0) =>
          IsSplit([i \in 1 .. Len(parts) |-> parts[i].range], total_len, part_num_bytes)

\* The split of the repository's test: 0..11 by 3 is 0..3, 3..6, 6..9, 9..11.
C15_Witness ==
    /\ FacadeReturned("chunk_range")
    /\ f_arg = [len |-> 11, chunk_size |-> 3]
    /\ f_ret = Some(<< [start |-> 0, end |-> 3], [start |-> 3, end |-> 6],
                       [start |-> 6, end |-> 9], [start |-> 9, end |-> 11] >>)

\* C16: the probe of check_connectivity goes through the retry engine: a
\* transient failure is returned to the caller only after max_attempts
\* requests were sent.
C16_ConnectivityRetried ==
    ( /\ FacadeReturned("check_connectivity")
      /\ Unwrap(f_ret).kind = "Err"
      /\ Unwrap(f_ret).error.kind = "transient" ) =>
        /\ f_requests = max_attempts
        /\ Unwrap(f_ret).error.attempt = max_attempts

\* The scheme of an address: what stands before the first "://".
Scheme(uri) ==
    SubSeq(uri, 1, (CHOOSE k \in 1 .. Len(uri) :
                       /\ HasAt(uri, k, SchemeSeparator)
                       /\ \A j \in 1 .. (k - 1) : ~HasAt(uri, j, SchemeSeparator)) - 1)

HasS3Scheme(uri) ==
    \/ Scheme(uri) = << "s3" >>
    \/ Len(Scheme(uri)) >= 3 /\ Scheme(uri)[1] = "s3" /\ Scheme(uri)[2] = "+"

\* C17: for an address with the s3 scheme and a bucket, parse_s3_uri returns
\* the bucket (what stands before the first "/") and as prefix what follows
\* that "/", the empty path when nothing does; for every address with another
\* scheme it returns None.
C17_ParseS3Uri ==
    FacadeReturned("parse_s3_uri") =>
        LET rest == SubSeq(f_arg, Len(Scheme(f_arg)) + 4, Len(f_arg))
            slash == IndexOf(rest, 1, "/")
        IN /\ (HasS3Scheme(f_arg) /\ slash > 1) =>
                 f_ret = Some([ bucket |-> SubSeq(rest, 1, slash - 1),
                                path |-> SubSeq(rest, slash + 1, Len(rest)) ])
           /\ ~HasS3Scheme(f_arg) => f_ret = None

\* -------------------------------------------------------- ordering: claims

\* C18: the completion call is issued only after every part upload has
\* resolved: once it is issued every part was started and none is in flight.
C18_CompletionAfterBarrier ==
    (Issued("complete_multipart_upload") >= 1) =>
        /\ admitted = Len(parts)
        /\ \A i \in 1 .. Len(uploads) : uploads[i].st \in { "ok", "err" }

\* The completion call is in flight after three parts went through two upload
\* slots, one of them with a retry.
C18_Witness ==
    /\ p_pc = "complete"
    /\ Len(uploads) = 3
    /\ max_concurrent_upload = 2
    /\ \E i \in 1 .. 3 : uploads[i].num_attempts > 0

\* Parts started and not resolved; a part between two attempts is one of them.
InFlightParts == { i \in 1 .. Len(uploads) : uploads[i].st = "inflight" }

\* C19: at most max_concurrent_upload part uploads are in flight at any time,
\* a part is started only in a state where fewer than that are in flight, and
\* once the parts are handed to the stream every part is eventually started.
C19_BoundedConcurrency ==
    /\ [](Cardinality(InFlightParts) <= max_concurrent_upload)
    /\ [][admitted' > admitted =>
             Cardinality(InFlightParts) < max_concurrent_upload]_vars
    /\ ((p_pc = "upload") ~> (admitted = Len(parts)))

\* Three parts and one slot: the third part is in flight, in its second
\* attempt, after the first two were resolved.
C19_Witness ==
    /\ p_pc = "upload"
    /\ max_concurrent_upload = 1
    /\ Len(uploads) = 3
    /\ admitted = 3
    /\ InFlightParts = { 3 }
    /\ uploads[3].num_attempts = 1

\* Chunks whose retried call was issued and has not returned.
InFlightChunks == { c \in DOMAIN d_calls : d_calls[c] >= 1 /\ c \notin d_returned }

\* C20: at most one DeleteObjects call is in flight, it is the call of the
\* chunk the loop is at, and when the call of a chunk is issued the call of
\* every earlier chunk has returned, retries included.
C20_BatchesSequential ==
    /\ Cardinality(InFlightChunks) <= 1
    /\ InFlightChunks = IF d_pc = "call" THEN { chunk_idx } ELSE {}
    /\ \A c \in DOMAIN d_calls :
          (d_calls[c] >= 1) => \A b \in 1 .. (c - 1) : b \in d_returned

\* The call of the third chunk is in flight, retried once, after the calls of
\* the first two chunks returned.
C20_Witness ==
    /\ d_pc = "call"
    /\ chunk_idx = 3
    /\ d_num_attempts = 1
    /\ d_returned = { 1, 2 }

\* ------------------------------------------------------- batching: claims

RECURSIVE Flatten(_)
\* The keys of the calls issued, call after call.
Flatten(requests) ==
    IF requests = << >> THEN << >> ELSE Head(requests) \o Flatten(Tail(requests))

\* C21: the calls issued carry consecutive keys of the input in input order:
\* each holds 1 to MAX_NUM_KEYS keys, each but the call of the last chunk
\* holds exactly MAX_NUM_KEYS, no key is in two calls, and at most
\* ceil(n / MAX_NUM_KEYS) calls are issued for n keys, none for no key.
C21_BatchesOfMaxNumKeys ==
    LET n == Len(paths)
        sent == Flatten(d_sent)
    IN /\ Len(d_sent) * MAX_NUM_KEYS < n + MAX_NUM_KEYS
       /\ (n = 0) => d_sent = << >>
       /\ \A i \in 1 .. Len(d_sent) :
             /\ Len(d_sent[i]) >= 1
             /\ Len(d_sent[i]) <= MAX_NUM_KEYS
             /\ (i * MAX_NUM_KEYS < n) => Len(d_sent[i]) = MAX_NUM_KEYS
       /\ Len(sent) <= n
       /\ \A j \in 1 .. Len(sent) : sent[j] = Key(paths[j])
       /\ \A j, k \in 1 .. Len(sent) : (j # k) => sent[j] # sent[k]

\* Seven keys were sent in three calls of 3, 3 and 1 keys.
C21_Witness ==
    /\ Returned
    /\ Len(paths) = 7
    /\ Len(d_sent) = 3
    /\ Len(d_sent[1]) = MAX_NUM_KEYS
    /\ Len(d_sent[2]) = MAX_NUM_KEYS
    /\ Len(d_sent[3]) = 1

\* ------------------------------------------------------ multipart: claims

\* C22: a part's upload is started only after its range was read and
\* digested: while the digests are computed no upload exists, and every part
\* that was started has the digest of exactly its own range, which is the
\* digest its upload carries.
C22_DigestBeforeUpload ==
    /\ (p_pc = "digest") => (uploads = << >> /\ admitted = 0)
    /\ admitted <= Len(parts)
    /\ \A i \in 1 .. Len(uploads) :
          (uploads[i].st # "queued") =>
              /\ i <= Len(parts)
              /\ Issued("range_byte_stream") >= i
              /\ parts[i].md5 = << "md5", parts[i].range.start, parts[i].range.end >>
              /\ (uploads[i].st = "ok") =>
                    Unwrap(uploads[i].out).e_tag = Some(<< "etag", parts[i].md5 >>)

\* The first of three parts is being uploaded; the three ranges were read.
C22_Witness ==
    /\ p_pc = "upload"
    /\ Len(parts) = 3
    /\ Issued("range_byte_stream") = 3
    /\ uploads[1].st = "inflight"
    /\ admitted = 1

\* C23: the parts are numbered 1..k in range order, and the manifest given to
\* the completion call holds exactly one record for each of the numbers 1..k,
\* also when uploads were retried.
C23_DenseNumbersExactManifest ==
    /\ \A i \in 1 .. Len(parts) : parts[i].part_number = i
    /\ (Issued("complete_multipart_upload") >= 1) =>
          /\ IsSome(completed_parts_res)
          /\ Unwrap(completed_parts_res).kind = "Ok"
          /\ LET manifest == Unwrap(completed_parts_res).parts
                 k == Len(MultipartRanges)
             IN /\ Len(parts) = k
                /\ Len(manifest) = k
                /\ \A n \in 1 .. k :
                      Cardinality({ j \in 1 .. Len(manifest) :
                                        manifest[j].part_number = n }) = 1

\* The completion call was issued with the manifest of three parts uploaded
\* through two slots, the second part on its third attempt.
C23_Witness ==
    /\ p_pc = "complete"
    /\ Len(parts) = 3
    /\ max_concurrent_upload = 2
    /\ uploads[2].num_attempts = max_attempts - 1

\* C25: the assertion len > 0 of create_multipart_requests never fails: the
\* multipart path is entered only with a part size below the total length,
\* so with a total length of at least 1, and an empty payload is put in one shot.
C25_AssertLenHolds ==
    /\ p_pc # "panicked"
    /\ (Issued("create_multipart_upload") >= 1) =>
          /\ part_num_bytes < total_len
          /\ total_len > 0
    /\ (total_len = 0 /\ p_pc # "start") =>
          /\ Issued("put_object") = 1
          /\ Issued("create_multipart_upload") = 0

\* create_multipart_requests was entered with the smallest multipart payload
\* and goes on to read the first range.
C25_Witness ==
    /\ p_pc = "digest"
    /\ parts = << >>
    /\ total_len = 2
    /\ part_num_bytes = 1
    /\ Issued("range_byte_stream") = 1

\* C26: a failed part upload does not stop the others: the abort call is
\* issued only when every part was started and is resolved, the parts after
\* the failed one included.
C26_FailureDoesNotCancel ==
    /\ (Issued("abort_multipart_upload") >= 1) =>
          /\ admitted = Len(parts)
          /\ \A i \in 1 .. Len(uploads) : uploads[i].st \in { "ok", "err" }
    /\ (p_pc = "upload" /\ FailedParts # {}) =>
          /\ Issued("abort_multipart_upload") = 0
          /\ (admitted < Len(parts) /\ HasFreeSlot) => ENABLED UploadPartStart

\* With one slot the first part failed for good at once; the second and the
\* third part were uploaded after that, with retries, and the abort call is
\* in flight.
C26_Witness ==
    /\ p_pc = "abort"
    /\ max_concurrent_upload = 1
    /\ Len(uploads) = 3
    /\ uploads[1].st = "err"
    /\ Unwrap(uploads[1].out).attempt = 1
    /\ uploads[2].st = "ok"
    /\ uploads[2].num_attempts > 0
    /\ uploads[3].st = "ok"

\* The failed part with the smallest part number.
FirstFailedPart == CHOOSE i \in FailedParts : \A j \in FailedParts : i <= j

\* C27: when part uploads failed, the error put returns is the final error of
\* the failed part with the smallest part number, whichever part failed
\* first in time.
C27_SmallestPartErrorWins ==
    (PutReturned /\ FailedParts # {}) =>
        /\ PutOutcome.kind = "Err"
        /\ PutOutcome.error = Unwrap(uploads[FirstFailedPart].out)
        /\ PutOutcome.error.part = FirstFailedPart

\* Parts 1 and 2 failed, part 2 before part 1 in time, and put returned.
C27_Witness ==
    /\ PutReturned
    /\ Cardinality(FailedParts) >= 2
    /\ FirstFailedPart = 1
    /\ uploads[1].late
    /\ PutOutcome.error.part = 1

\* ------------------------------------------------------- get_slice: claims

\* The number of bytes the header bytes=first-last designates; -1 for a
\* header whose last position is below the first, which designates no range.
DesignatedBytes(range_str) ==
    IF range_str[4] >= range_str[2] THEN range_str[4] - range_str[2] + 1 ELSE -1

\* C24: for every range start <= end given to get_slice, empty ranges
\* included, the request is built without panic or wrap-around: its header
\* is bytes=start-(end-1) and designates exactly end - start bytes.
C24_RangeHeader ==
    (f_op = "get_slice" /\ f_pc # "start") =>
        /\ f_pc # "panicked"
        /\ f_key = Some(<< "bytes=", f_arg.start, "-", f_arg.end - 1 >>)
        /\ DesignatedBytes(Unwrap(f_key)) = f_arg.end - f_arg.start

====
